---------------------------- MODULE Spec2Model ----------------------------
(***************************************************************************)
(* Model of gomagiclink (github.com/ivoras/gomagiclink): the controller   *)
(* that issues and verifies the signed challenge and session-id strings,   *)
(* the AuthUserRecord and the SQL user store.                              *)
(*                                                                         *)
(* Go strings and []byte are sequences of byte values 0..255.  A pointer   *)
(* is a sequence of length 0 (nil) or 1.  An error is a string, "" is nil. *)
(* Time is counted in whole Unix seconds and durations in whole seconds.   *)
(***************************************************************************)
EXTENDS Integers, Sequences, FiniteSets, TLC

(***************************************************************************)
(* Bounds of the model.                                                    *)
(***************************************************************************)
StartTime == 9      \* Unix second at which the run starts
MaxTicks  == 2      \* number of seconds the clock advances
MaxIds    == 2      \* number of identifiers ulid.Make() hands out
MaxBytes  == 5      \* length of the longest byte string given to the codec

(***************************************************************************)
(* Program constants (magiclink.go).                                       *)
(***************************************************************************)
challengeSignature == <<57>>                  \* "9"
sessionIdSignature == <<83>>                  \* "S"
saltLength == 8
MinSecretKeyLen == 16
HashSize == 32                                \* sha256.Size

ErrUserAlreadyExists == "user already exists"
ErrUserNotFound      == "user not found"
ErrSecretKeyTooShort == "secret Key too short (min 16 bytes)"
ErrInvalidChallenge  == "invalid challenge"
ErrBrokenChallenge   == "broken challenge"
ErrExpiredChallenge  == "expired challenge"
ErrInvalidSessionId  == "invalid session id"
ErrBrokenSessionId   == "broken session id"
ErrExpiredSessionId  == "expired session id"
ErrRand              == "rand.Read failed"
ErrDatabase          == "database error"
ErrDuplicateKey      == "duplicate key"
ErrCorruptInput      == "illegal base32 data"
NoErr                == ""

(***************************************************************************)
(* Bytes and strings.                                                      *)
(***************************************************************************)
DASH == <<45>>                                \* "-"
PAD  == <<61>>                                \* "="

Pow2(n) == 2 ^ n

\* v := e; F(v): e is evaluated once, whatever the number of uses F makes of it
Bind(e, F(_)) == CHOOSE r \in {F(v) : v \in {e}} : TRUE

Min(S) == CHOOSE i \in S : \A k \in S : i <= k
Max(S) == CHOOSE i \in S : \A k \in S : i >= k

\* b[i] for a 0-based index, 0 beyond the end
At0(b, i) == IF i + 1 <= Len(b) THEN b[i + 1] ELSE 0

Repeat(c, n) == [i \in 1..n |-> c]

\* a bug of the prefix test: only the lengths are compared
HasPrefixLengthOnly(s, p) == Len(s) >= Len(p)

\* strings.HasPrefix
HasPrefix(s, p) == Len(s) >= Len(p) /\ SubSeq(s, 1, Len(p)) = p

\* strings.Split(s, sep) for a one-byte separator: the stretches between the
\* start, the separators in increasing position, and the end
Split(s, sep) ==
    Bind({i \in 1..Len(s) : s[i] = sep[1]}, LAMBDA at :
        LET cut(k) == IF k = 0 THEN 0
                      ELSE IF k > Cardinality(at) THEN Len(s) + 1
                      ELSE CHOOSE i \in at : Cardinality({j \in at : j < i}) = k - 1
        IN  [k \in 1..(Cardinality(at) + 1) |-> SubSeq(s, cut(k - 1) + 1, cut(k) - 1)])

\* strconv.Itoa
RECURSIVE Digits(_)
Digits(n) == IF n < 10 THEN <<48 + n>> ELSE Append(Digits(n \div 10), 48 + (n % 10))

Itoa(n) == IF n < 0 THEN <<45>> \o Digits(-n) ELSE Digits(n)

\* strconv.Atoi: an optional sign, then one or more decimal digits
IsDigit(c) == c >= 48 /\ c <= 57

RECURSIVE DigitsValue(_, _, _)
DigitsValue(s, from, acc) ==
    IF from > Len(s) THEN acc ELSE DigitsValue(s, from + 1, acc * 10 + (s[from] - 48))

Atoi(s) ==
    LET signed == s # <<>> /\ s[1] \in {43, 45}
        from   == IF signed THEN 2 ELSE 1
    IN  IF from > Len(s) \/ (\E i \in from..Len(s) : ~IsDigit(s[i])) \/ Len(s) - from + 1 > 9
        THEN [ok |-> FALSE, val |-> 0]
        ELSE [ok |-> TRUE,
              val |-> IF signed /\ s[1] = 45 THEN -DigitsValue(s, from, 0)
                      ELSE DigitsValue(s, from, 0)]

\* strings.ToLower on ASCII
ToLower(s) == [i \in 1..Len(s) |-> IF s[i] >= 65 /\ s[i] <= 90 THEN s[i] + 32 ELSE s[i]]

\* strings.TrimSpace on ASCII
IsSpace(c) == c \in {9, 10, 11, 12, 13, 32}

TrimSpace(s) ==
    Bind({i \in 1..Len(s) : ~IsSpace(s[i])}, LAMBDA keep :
        IF keep = {} THEN <<>> ELSE SubSeq(s, Min(keep), Max(keep)))

NormalizeEmail(email) == Bind(TrimSpace(email), ToLower)

(***************************************************************************)
(* encoding/base32, StdEncoding: alphabet A-Z 2-7, pad character "=".      *)
(***************************************************************************)
\* the character of a 5-bit value
b32Char(v) == IF v < 26 THEN 65 + v ELSE 50 + (v - 26)

\* Encoding.decodeMap: the 5-bit value of a character, 255 for any other byte
b32Value(c) ==
    IF c >= 65 /\ c <= 90 THEN c - 65
    ELSE IF c >= 50 /\ c <= 55 THEN c - 50 + 26
    ELSE 255

\* EncodeToString: 5 bits per character, most significant first, the last
\* character zero-filled, then padded with "=" to a multiple of 8 characters
b32EncodeToString(b) ==
    LET nchars == (8 * Len(b) + 4) \div 5
        char(k) == LET i == (5 * k) \div 8
                       o == (5 * k) % 8
                       w == At0(b, i) * 256 + At0(b, i + 1)
                   IN  b32Char((w \div Pow2(11 - o)) % 32)
    IN  [k \in 1..nchars |-> char(k - 1)] \o Repeat(61, (8 - (nchars % 8)) % 8)

\* stripNewlines: DecodeString ignores "\r" and "\n"
stripNewlines(s) == SelectSeq(s, LAMBDA c : c \notin {10, 13})

\* the index of the first byte of src that is not of the alphabet, Len(src) + 1
\* if there is none
b32FirstBad(src) ==
    Bind({i \in 1..Len(src) : b32Value(src[i]) = 255}, LAMBDA bads :
        IF bads = {} THEN Len(src) + 1 ELSE Min(bads))

\* Encoding.decode reads quanta of 8 characters while input is left and no
\* padding was met, and stops at the first byte that is not of the alphabet:
\* at index bad, the j-th (from 0) of its quantum, with rest bytes after it.
\* That byte ends the input correctly only if it is padding, j >= 2, fewer
\* than 8 bytes follow, at least 8 - j bytes of the quantum are there, the
\* next 8 - 1 - j that exist are padding, and j is none of 1, 3, 6; what
\* follows the padding of that quantum is not read.  With no such byte the
\* input must be whole quanta (the padding is not optional).
b32Decode(src) ==
    Bind(b32FirstBad(src), LAMBDA bad :
    LET n    == Len(src)
        m    == bad - 1
        j    == m % 8
        rest == n - bad
        ok   == IF bad > n THEN n % 8 = 0
                ELSE /\ src[bad] = 61
                     /\ j >= 2
                     /\ rest < 8
                     /\ ~(rest + j < 8 - 1)
                     /\ \A k \in 0..(8 - 1 - j - 1) : rest > k => src[bad + 1 + k] = 61
                     /\ j \notin {1, 3, 6}
        \* a quantum of 8 characters packs 5 bytes, one of 7, 5, 4, 2: 4, 3, 2, 1
        nbytes == 5 * (m \div 8)
                    + (CASE j = 7 -> 4 [] j = 5 -> 3 [] j = 4 -> 2 [] j = 2 -> 1 [] OTHER -> 0)
        d(i) == IF i + 1 <= m THEN b32Value(src[i + 1]) ELSE 0
        byte(k) == LET p == 8 * k
                       c == p \div 5
                       o == p % 5
                       w == d(c) * 1024 + d(c + 1) * 32 + d(c + 2)
                   IN  (w \div Pow2(7 - o)) % 256
    IN  IF ok THEN [ok |-> TRUE, val |-> [k \in 1..nbytes |-> byte(k - 1)]]
        ELSE [ok |-> FALSE, val |-> <<>>])

b32DecodeString(s) == Bind(stripNewlines(s), b32Decode)

(***************************************************************************)
(* Binary-string encoding of the package.                                  *)
(***************************************************************************)
\* strings.TrimRight(s, "=")
TrimRightPad(s) ==
    Bind({i \in 1..Len(s) : s[i] # 61}, LAMBDA keep :
        IF keep = {} THEN <<>> ELSE SubSeq(s, 1, Max(keep)))

encodeToString(b) == Bind(b, LAMBDA v : Bind(b32EncodeToString(v), TrimRightPad))

decodeFromString(s) == Bind(s \o Repeat(61, 8 - (Len(s) % 8)), b32DecodeString)

(***************************************************************************)
(* github.com/oklog/ulid/v2: a 16-byte identifier, written as 26           *)
(* characters of Crockford's base 32.                                      *)
(***************************************************************************)
ulidEncoding == << 48, 49, 50, 51, 52, 53, 54, 55, 56, 57,
                   65, 66, 67, 68, 69, 70, 71, 72, 74, 75, 77, 78,
                   80, 81, 82, 83, 84, 86, 87, 88, 89, 90 >>

ulidEncodedSize == 26

zeroULID == Repeat(0, 16)

IsZeroULID(u) == u = zeroULID

\* the dec table: digits and letters of either case, 255 for any other byte
ulidValue(c) ==
    LET u == IF c >= 97 /\ c <= 122 THEN c - 32 ELSE c
    IN  IF \E v \in 1..32 : ulidEncoding[v] = u
        THEN (CHOOSE v \in 1..32 : ulidEncoding[v] = u) - 1
        ELSE 255

\* ULID.String(): 130 bits, the first two are zero
ulidString(id) ==
    LET char(k) == IF k = 0 THEN id[1] \div 32
                   ELSE LET p == 5 * k - 2
                            i == p \div 8
                            o == p % 8
                            w == At0(id, i) * 256 + At0(id, i + 1)
                        IN  (w \div Pow2(11 - o)) % 32
    IN  [k \in 1..ulidEncodedSize |-> ulidEncoding[char(k - 1) + 1]]

\* ulid.ParseStrict: ErrDataSize, ErrInvalidCharacters, ErrOverflow, or the id
ulidParseStrict(s) ==
    IF Len(s) # ulidEncodedSize THEN [ok |-> FALSE, val |-> zeroULID]
    ELSE IF \E i \in 1..Len(s) : ulidValue(s[i]) = 255 THEN [ok |-> FALSE, val |-> zeroULID]
    ELSE IF s[1] > 55 THEN [ok |-> FALSE, val |-> zeroULID]
    ELSE LET d(i) == IF i + 1 <= Len(s) THEN ulidValue(s[i + 1]) ELSE 0
             byte(j) == LET p == 8 * j + 2
                            c == p \div 5
                            o == p % 5
                            w == d(c) * 1024 + d(c + 1) * 32 + d(c + 2)
                        IN  (w \div Pow2(7 - o)) % 256
         IN  [ok |-> TRUE, val |-> [j \in 1..16 |-> byte(j - 1)]]


(***************************************************************************)
(* crypto/sha256 and crypto/hmac.  Both are modelled as fixed-width        *)
(* (HashSize bytes) functions that are injective on the inputs of the      *)
(* model (at most HashSize - 1 bytes): their collision-freeness is the     *)
(* cryptographic assumption the package rests on.                          *)
(***************************************************************************)
Block(b) == Bind(b, LAMBDA v : [i \in 1..HashSize |-> IF i = 1 THEN Len(v) % 256 ELSE At0(v, i - 2)])

Sum256(b) == Bind(Block(b), LAMBDA blk : [i \in 1..HashSize |-> (blk[i] + 17 * i) % 256])

\* hmac.New(sha256.New, key); mac.Write(payload); mac.Sum(nil)
hmacSum(key, payload) ==
    Bind(Block(payload), LAMBDA blk : [i \in 1..HashSize |-> (At0(key, i - 1) + blk[i]) % 256])

\* hmac.Equal
hmacEqual(a, b) == a = b

(***************************************************************************)
(* AuthUserRecord.                                                         *)
(***************************************************************************)
\* ulid.Make(): the n-th identifier handed out, n >= 1, never the zero value
MakeULID(n) == Repeat(0, 6) \o Repeat(85, 9) \o <<n>>

NewAuthUserRecord(email, id, now) ==
    [ID              |-> id,
     Email           |-> NormalizeEmail(email),
     Enabled         |-> TRUE,
     FirstLoginTime  |-> now,
     RecentLoginTime |-> now,
     CustomData      |-> "nil"]

\* &AuthUserRecord{Email: email}: every other field has its zero value
AuthUserRecordLiteral(email) ==
    [ID              |-> zeroULID,
     Email           |-> email,
     Enabled         |-> FALSE,
     FirstLoginTime  |-> 0,
     RecentLoginTime |-> 0,
     CustomData      |-> "nil"]

\* a bug of GetID: ulid.Make() is called whatever the identifier is
EnsureIDAlways(u, fresh) == [u EXCEPT !.ID = fresh]

\* if IsZeroULID(aur.ID) { aur.ID = ulid.Make() }
EnsureID(u, fresh) == IF IsZeroULID(u.ID) THEN [u EXCEPT !.ID = fresh] ELSE u

\* fmt.Sprintf("_%s_%s", aur.ID.String(), aur.Email)
KeyName(u) == <<95>> \o ulidString(u.ID) \o <<95>> \o u.Email

\* a bug of json.Unmarshal: the identifier does not come back
JsonRoundTripLosingID(u) == [u EXCEPT !.ID = zeroULID]

\* json.Marshal then json.Unmarshal of a record: a number comes back as float64
JsonRoundTrip(u) == [u EXCEPT !.CustomData = IF @ = "int" THEN "float64" ELSE @]

(***************************************************************************)
(* storage.SQLStorage: one table of rows (id, email, data).                *)
(***************************************************************************)
SQLUserExistsByEmail(store, email) ==
    Bind(NormalizeEmail(email), LAMBDA e : \E r \in store : r.email = e)

SQLStoreUser(store, user) ==
    Bind(ulidString(user.ID), LAMBDA id :
        IF ~SQLUserExistsByEmail(store, user.Email)
        THEN store \cup {[id |-> id, email |-> user.Email, data |-> user]}
        ELSE {IF r.id = id THEN [r EXCEPT !.data = user] ELSE r : r \in store})

\* a bug of GetUserById: a record that is not enabled is not found
SQLGetUserByIdEnabledOnly(store, id, dbErr) ==
    Bind(ulidString(id), LAMBDA key :
        IF dbErr THEN [user |-> <<>>, err |-> ErrDatabase]
        ELSE IF \E r \in store : r.id = key /\ r.data.Enabled
        THEN [user |-> <<JsonRoundTrip((CHOOSE r \in store : r.id = key).data)>>,
              err |-> NoErr]
        ELSE [user |-> <<>>, err |-> ErrUserNotFound])

SQLGetUserById(store, id, dbErr) ==
    Bind(ulidString(id), LAMBDA key :
        IF dbErr THEN [user |-> <<>>, err |-> ErrDatabase]
        ELSE IF \E r \in store : r.id = key
        THEN [user |-> <<JsonRoundTrip((CHOOSE r \in store : r.id = key).data)>>,
              err |-> NoErr]
        ELSE [user |-> <<>>, err |-> ErrUserNotFound])

SQLGetUserByEmail(store, email, dbErr) ==
    Bind(NormalizeEmail(email), LAMBDA e :
        IF dbErr THEN [user |-> <<>>, err |-> ErrDatabase]
        ELSE IF \E r \in store : r.email = e
        THEN [user |-> <<JsonRoundTrip((CHOOSE r \in store : r.email = e).data)>>,
              err |-> NoErr]
        ELSE [user |-> <<>>, err |-> ErrUserNotFound])

(***************************************************************************)
(* AuthMagicLinkController.                                                *)
(***************************************************************************)
\* a bug of the length test: a secret of exactly the minimum is refused
SecretKeyTooShortOrEqual(secretKey) == Len(secretKey) <= MinSecretKeyLen

SecretKeyTooShort(secretKey) == Len(secretKey) < MinSecretKeyLen

NewController(secretKey, challengeExpDuration, sessionExpDuration) ==
    IF SecretKeyTooShort(secretKey)
    THEN [mlc |-> <<>>, err |-> ErrSecretKeyTooShort]
    ELSE [mlc |-> <<[secretKeyHash        |-> Sum256(secretKey),
                     challengeExpDuration |-> challengeExpDuration,
                     sessionExpDuration   |-> sessionExpDuration]>>,
          err |-> NoErr]

makeHMAC(c, payload) == hmacSum(c.secretKeyHash, payload)

\* a bug of the expiry test: the expiry second itself is refused
ExpiredAtExpiry(expTime, now) == expTime <= now

\* int64(expTime) < time.Now().Unix()
Expired(expTime, now) == expTime < now

\* SALT || 0 || SUBJECT || 0 || EXPTIME
Payload(salt, subject, expText) == salt \o <<0>> \o subject \o <<0>> \o expText

\* fmt.Sprintf("%s%s-%s-%s-%s", signature, f1, f2, f3, f4)
Sprintf(sig, f1, f2, f3, f4) == sig \o f1 \o DASH \o f2 \o DASH \o f3 \o DASH \o f4

GenerateChallengeString(c, email, salt, now) ==
    Bind(NormalizeEmail(email), LAMBDA e :
        LET expTime == now + c.challengeExpDuration
            hmac    == makeHMAC(c, Payload(salt, e, Itoa(expTime)))
        IN  Sprintf(challengeSignature, encodeToString(salt), encodeToString(e),
                    Itoa(expTime), encodeToString(hmac)))

\* a bug of VerifyChallenge: the MACs are compared before the expiry is
\* looked at
ChallengeFieldChecksMacFirst(c, parts, now) ==
    Bind(<<decodeFromString(parts[1]), decodeFromString(parts[2]), Atoi(parts[3]),
           decodeFromString(parts[4])>>,
         LAMBDA f :
        IF ~f[1].ok \/ ~f[2].ok \/ ~f[3].ok THEN [err |-> ErrInvalidChallenge, email |-> <<>>]
        ELSE IF ~f[4].ok THEN [err |-> ErrInvalidChallenge, email |-> <<>>]
        ELSE IF ~hmacEqual(f[4].val, makeHMAC(c, Payload(f[1].val, f[2].val, Itoa(f[3].val))))
             THEN [err |-> ErrBrokenChallenge, email |-> <<>>]
        ELSE IF Expired(f[3].val, now) THEN [err |-> ErrExpiredChallenge, email |-> <<>>]
        ELSE [err |-> NoErr, email |-> f[2].val])

\* VerifyChallenge from the split fields to the comparison of the MACs
ChallengeFieldChecks(c, parts, now) ==
    Bind(<<decodeFromString(parts[1]), decodeFromString(parts[2]), Atoi(parts[3])>>,
         LAMBDA f :
        LET salt    == f[1]
            email   == f[2]
            expTime == f[3]
        IN  IF ~salt.ok THEN [err |-> ErrInvalidChallenge, email |-> <<>>]
            ELSE IF ~email.ok THEN [err |-> ErrInvalidChallenge, email |-> <<>>]
            ELSE IF ~expTime.ok THEN [err |-> ErrInvalidChallenge, email |-> <<>>]
            ELSE IF Expired(expTime.val, now) THEN [err |-> ErrExpiredChallenge, email |-> <<>>]
            ELSE Bind(decodeFromString(parts[4]), LAMBDA hmac1 :
                 LET hmac2 == makeHMAC(c, Payload(salt.val, email.val, Itoa(expTime.val)))
                 IN  IF ~hmac1.ok THEN [err |-> ErrInvalidChallenge, email |-> <<>>]
                     ELSE IF ~hmacEqual(hmac1.val, hmac2)
                          THEN [err |-> ErrBrokenChallenge, email |-> <<>>]
                     ELSE [err |-> NoErr, email |-> email.val]))

\* VerifyChallenge up to the comparison of the MACs: the error, and the email
ChallengeChecks(c, challenge, now) ==
    IF ~HasPrefix(challenge, challengeSignature)
    THEN [err |-> ErrInvalidChallenge, email |-> <<>>]
    ELSE Bind(SubSeq(challenge, Len(challengeSignature) + 1, Len(challenge)), LAMBDA body :
         Bind(Split(body, DASH), LAMBDA parts :
            IF Len(parts) # 4 THEN [err |-> ErrInvalidChallenge, email |-> <<>>]
            ELSE ChallengeFieldChecks(c, parts, now)))

\* a bug of the provisioning test: a record is made on any error of the store
AnyStoreError(err) == err # NoErr

\* err == ErrUserNotFound
UserNotFound(err) == err = ErrUserNotFound

\* a bug of VerifyChallenge: the login is not recorded
TouchNothing(user, now) == user

\* if user != nil { user.RecentLoginTime = time.Now() }
Touch(user, now) ==
    IF user # <<>> THEN <<[user[1] EXCEPT !.RecentLoginTime = now]>> ELSE user

\* a bug of VerifyChallenge: a challenge is good for one login only, and is
\* refused when the store has the user already
VerifyChallengeCallOnce(c, store, challenge, now, id, dbErr) ==
    Bind(ChallengeChecks(c, challenge, now), LAMBDA chk :
        IF chk.err # NoErr THEN [user |-> <<>>, err |-> chk.err, made |-> FALSE]
        ELSE Bind(SQLGetUserByEmail(store, chk.email, dbErr), LAMBDA got :
             IF UserNotFound(got.err)
             THEN [user |-> Touch(<<NewAuthUserRecord(chk.email, id, now)>>, now),
                   err |-> NoErr, made |-> TRUE]
             ELSE [user |-> <<>>,
                   err |-> IF got.err = NoErr THEN ErrUserAlreadyExists ELSE got.err,
                   made |-> FALSE]))

\* VerifyChallenge: the record and the error it returns; made tells whether
\* NewAuthUserRecord was called (and took the identifier id from ulid.Make)
VerifyChallengeCall(c, store, challenge, now, id, dbErr) ==
    Bind(ChallengeChecks(c, challenge, now), LAMBDA chk :
        IF chk.err # NoErr THEN [user |-> <<>>, err |-> chk.err, made |-> FALSE]
        ELSE Bind(SQLGetUserByEmail(store, chk.email, dbErr), LAMBDA got :
             LET fresh == UserNotFound(got.err)
                 user  == IF fresh THEN <<NewAuthUserRecord(chk.email, id, now)>>
                          ELSE got.user
                 err   == IF fresh THEN NoErr ELSE got.err
             IN  [user |-> Touch(user, now),
                  err  |-> err,
                  made |-> fresh]))

GenerateSessionIdString(c, user, salt, now) ==
    LET userId     == ulidString(user.ID)
        expTime    == IF c.sessionExpDuration > 0 THEN now + c.sessionExpDuration ELSE 0
        expTimeStr == Itoa(expTime)
        hmac       == makeHMAC(c, Payload(salt, user.ID, expTimeStr))
    IN  Sprintf(sessionIdSignature, encodeToString(salt), userId, expTimeStr,
                encodeToString(hmac))

\* VerifySessionId from the split fields to the comparison of the MACs
SessionFieldChecks(c, parts, now) ==
    Bind(<<decodeFromString(parts[1]), ulidParseStrict(parts[2]), Atoi(parts[3])>>,
         LAMBDA f :
        LET salt    == f[1]
            userId  == f[2]
            expTime == f[3]
        IN  IF ~salt.ok THEN [err |-> ErrInvalidSessionId, id |-> zeroULID]
            ELSE IF ~userId.ok THEN [err |-> ErrInvalidSessionId, id |-> zeroULID]
            ELSE IF ~expTime.ok THEN [err |-> ErrInvalidSessionId, id |-> zeroULID]
            ELSE IF Expired(expTime.val, now) THEN [err |-> ErrExpiredSessionId, id |-> zeroULID]
            ELSE Bind(decodeFromString(parts[4]), LAMBDA hmac1 :
                 LET hmac2 == makeHMAC(c, Payload(salt.val, userId.val, parts[3]))
                 IN  IF ~hmac1.ok THEN [err |-> ErrInvalidSessionId, id |-> zeroULID]
                     ELSE IF ~hmacEqual(hmac1.val, hmac2)
                          THEN [err |-> ErrBrokenSessionId, id |-> zeroULID]
                     ELSE [err |-> NoErr, id |-> userId.val]))

\* VerifySessionId up to the comparison of the MACs: the error, and the id
SessionChecks(c, sessionId, now) ==
    IF ~HasPrefix(sessionId, sessionIdSignature)
    THEN [err |-> ErrInvalidSessionId, id |-> zeroULID]
    ELSE Bind(SubSeq(sessionId, Len(sessionIdSignature) + 1, Len(sessionId)), LAMBDA body :
         Bind(Split(body, DASH), LAMBDA parts :
            IF Len(parts) # 4 THEN [err |-> ErrInvalidSessionId, id |-> zeroULID]
            ELSE SessionFieldChecks(c, parts, now)))

\* a bug of VerifySessionId: it makes a record for an identifier the store
\* does not hold, as VerifyChallenge does for an email
VerifySessionIdCallProvisioning(c, store, sessionId, now, dbErr) ==
    Bind(SessionChecks(c, sessionId, now), LAMBDA chk :
        IF chk.err # NoErr THEN [user |-> <<>>, err |-> chk.err]
        ELSE Bind(SQLGetUserById(store, chk.id, dbErr), LAMBDA got :
             IF got.err = ErrUserNotFound
             THEN [user |-> <<NewAuthUserRecord(<<>>, chk.id, now)>>, err |-> NoErr]
             ELSE got))

VerifySessionIdCall(c, store, sessionId, now, dbErr) ==
    Bind(SessionChecks(c, sessionId, now), LAMBDA chk :
        IF chk.err # NoErr THEN [user |-> <<>>, err |-> chk.err]
        ELSE SQLGetUserById(store, chk.id, dbErr))


(***************************************************************************)
(* The state: one controller, its store, the clock, and one caller that    *)
(* makes one call at a time and holds what the calls returned.             *)
(***************************************************************************)
VARIABLES
    mlc,        \* *AuthMagicLinkController: <<>> (nil) or <<controller>>
    store,      \* the rows of the SQL table
    now,        \* time.Now().Unix()
    nextId,     \* ulid.Make() hands out MakeULID(nextId) next
    challenge,  \* the last challenge issued: <<>> or <<[token, email, exp]>>
    sessionId,  \* the last session id issued: <<>> or <<[token, id, exp]>>
    user,       \* the *AuthUserRecord the caller holds: <<>> or <<record>>
    res,        \* the call that has just returned, NoRes once it is consumed
    race,       \* the StoreUser calls of two concurrent callers, step by step
    codec       \* a byte string, its encodeToString and the decodeFromString of that

vars == <<mlc, store, now, nextId, challenge, sessionId, user, res, race, codec>>

NoRes == [op |-> "", in |-> <<>>, user |-> <<>>, err |-> NoErr, out |-> <<>>]

Res(op, in, u, err, out) == [op |-> op, in |-> in, user |-> u, err |-> err, out |-> out]

\* a StoreUser call of a concurrent caller: where it is ("idle", "checked",
\* "done"), the record it stores, what UserExistsByEmail answered, the error
NoCall == [pc |-> "idle", user |-> <<>>, exists |-> FALSE, err |-> NoErr]

Callers == {1, 2}

NoRace == [p \in Callers |-> NoCall]

\* nothing encoded yet: b the bytes, s the string, back and err the decoding
NoCodec == [pc |-> "start", b |-> <<>>, s |-> <<>>, back |-> <<>>, err |-> NoErr]

\* the caller is between two calls
Idle == res = NoRes /\ mlc # <<>>

(***************************************************************************)
(* Inputs.                                                                 *)
(***************************************************************************)
\* secret keys of 10, 15 and 16 bytes
SecretKeys == {[i \in 1..n |-> 64 + i] : n \in {10, 15, 16}}

\* the durations the controller is constructed with, in seconds
ChallengeDurations == {1, 2}
SessionDurations   == {0, 1}

\* "User@Example.com " (16 bytes once normalized) and " A@b.C" (5 bytes)
Emails == { <<85, 115, 101, 114, 64, 69, 120, 97, 109, 112, 108, 101, 46, 99, 111, 109, 32>>,
            <<32, 65, 64, 98, 46, 67>> }

\* the outcomes of rand.Read(salt): 0 is its failure, k >= 1 a salt
RandOutcomes == {0, 1}

Salt(k) == [i \in 1..saltLength |-> (37 * k + 11 * i) % 256]

\* the token with the signature of the other class in front
Relabel(t) ==
    IF t[1] = challengeSignature[1]
    THEN sessionIdSignature \o SubSeq(t, Len(challengeSignature) + 1, Len(t))
    ELSE challengeSignature \o SubSeq(t, Len(sessionIdSignature) + 1, Len(t))

Issued == {c.token : c \in {challenge[i] : i \in 1..Len(challenge)}}
            \cup {c.token : c \in {sessionId[i] : i \in 1..Len(sessionId)}}

\* what the caller hands to the verifiers: the tokens issued, the same tokens
\* relabelled as the other class, and the empty string
Inputs == Issued \cup {Relabel(t) : t \in Issued} \cup {<<>>}

(***************************************************************************)
(* Init and the actions.                                                   *)
(***************************************************************************)
Init ==
    /\ mlc = <<>>
    /\ store = {}
    /\ now = StartTime
    /\ nextId = 1
    /\ challenge = <<>>
    /\ sessionId = <<>>
    /\ user = <<>>
    /\ res = NoRes
    /\ race = NoRace
    /\ codec = NoCodec

NewAuthMagicLinkController(secretKey, challengeExpDuration, sessionExpDuration) ==
    /\ res = NoRes
    /\ mlc = <<>>
    /\ \E r \in {NewController(secretKey, challengeExpDuration, sessionExpDuration)} :
           /\ mlc' = r.mlc
           /\ res' = Res("NewAuthMagicLinkController", secretKey, <<>>, r.err, <<>>)
    /\ UNCHANGED <<store, now, nextId, challenge, sessionId, user>>
    /\ UNCHANGED <<race, codec>>

Tick ==
    /\ res = NoRes
    /\ now < StartTime + MaxTicks
    /\ now' = now + 1
    /\ UNCHANGED <<mlc, store, nextId, challenge, sessionId, user, res>>
    /\ UNCHANGED <<race, codec>>

\* a bug of GenerateChallenge: it keeps the MAC it made as the new key
GenerateChallengeRekeying(email, rnd) ==
    /\ res = NoRes
    /\ mlc # <<>>
    /\ IF rnd = 0
       THEN /\ res' = Res("GenerateChallenge", email, <<>>, ErrRand, <<>>)
            /\ UNCHANGED <<challenge, mlc>>
       ELSE \E t \in {GenerateChallengeString(mlc[1], email, Salt(rnd), now)} :
                /\ res' = Res("GenerateChallenge", email, <<>>, NoErr, t)
                /\ challenge' = <<[token |-> t, email |-> email,
                                   exp |-> now + mlc[1].challengeExpDuration]>>
                /\ mlc' = <<[mlc[1] EXCEPT !.secretKeyHash = Sum256(@)]>>
    /\ UNCHANGED <<store, now, nextId, sessionId, user>>
    /\ UNCHANGED <<race, codec>>

GenerateChallenge(email, rnd) ==
    /\ res = NoRes
    /\ mlc # <<>>
    /\ IF rnd = 0
       THEN /\ res' = Res("GenerateChallenge", email, <<>>, ErrRand, <<>>)
            /\ UNCHANGED challenge
       ELSE \E t \in {GenerateChallengeString(mlc[1], email, Salt(rnd), now)} :
                /\ res' = Res("GenerateChallenge", email, <<>>, NoErr, t)
                /\ challenge' = <<[token |-> t, email |-> email,
                                   exp |-> now + mlc[1].challengeExpDuration]>>
    /\ UNCHANGED <<mlc, store, now, nextId, sessionId, user>>
    /\ UNCHANGED <<race, codec>>

\* a bug of VerifyChallenge: it stores the record it returns
VerifyChallengeStoring(input, dbErr) ==
    /\ res = NoRes
    /\ mlc # <<>>
    /\ \E r \in {VerifyChallengeCall(mlc[1], store, input, now, MakeULID(nextId), dbErr)} :
           /\ r.made => nextId <= MaxIds
           /\ res' = Res("VerifyChallenge", input, r.user, r.err, <<>>)
           /\ nextId' = IF r.made THEN nextId + 1 ELSE nextId
           /\ user' = IF r.user # <<>> THEN r.user ELSE user
           /\ store' = IF r.user # <<>> THEN SQLStoreUser(store, r.user[1]) ELSE store
    /\ UNCHANGED <<mlc, now, challenge, sessionId>>
    /\ UNCHANGED <<race, codec>>

VerifyChallenge(input, dbErr) ==
    /\ res = NoRes
    /\ mlc # <<>>
    /\ \E r \in {VerifyChallengeCall(mlc[1], store, input, now, MakeULID(nextId), dbErr)} :
           /\ r.made => nextId <= MaxIds
           /\ res' = Res("VerifyChallenge", input, r.user, r.err, <<>>)
           /\ nextId' = IF r.made THEN nextId + 1 ELSE nextId
           /\ user' = IF r.user # <<>> THEN r.user ELSE user
    /\ UNCHANGED <<mlc, store, now, challenge, sessionId>>
    /\ UNCHANGED <<race, codec>>

StoreUser ==
    /\ res = NoRes
    /\ mlc # <<>>
    /\ user # <<>>
    /\ store' = SQLStoreUser(store, user[1])
    /\ res' = Res("StoreUser", <<>>, user, NoErr, <<>>)
    /\ UNCHANGED <<mlc, now, nextId, challenge, sessionId, user>>
    /\ UNCHANGED <<race, codec>>

GenerateSessionId(rnd) ==
    /\ res = NoRes
    /\ mlc # <<>>
    /\ user # <<>>
    /\ IF rnd = 0
       THEN /\ res' = Res("GenerateSessionId", <<>>, user, ErrRand, <<>>)
            /\ UNCHANGED sessionId
       ELSE \E t \in {GenerateSessionIdString(mlc[1], user[1], Salt(rnd), now)} :
                /\ res' = Res("GenerateSessionId", <<>>, user, NoErr, t)
                /\ sessionId' = <<[token |-> t, id |-> user[1].ID,
                                   exp |-> IF mlc[1].sessionExpDuration > 0
                                           THEN now + mlc[1].sessionExpDuration ELSE 0]>>
    /\ UNCHANGED <<mlc, store, now, nextId, challenge, user>>
    /\ UNCHANGED <<race, codec>>

VerifySessionId(input, dbErr) ==
    /\ res = NoRes
    /\ mlc # <<>>
    /\ \E r \in {VerifySessionIdCall(mlc[1], store, input, now, dbErr)} :
           /\ res' = Res("VerifySessionId", input, r.user, r.err, <<>>)
           /\ user' = IF r.user # <<>> THEN r.user ELSE user
    /\ UNCHANGED <<mlc, store, now, nextId, challenge, sessionId>>
    /\ UNCHANGED <<race, codec>>

\* the caller has looked at what the call returned
Consume ==
    /\ res # NoRes
    /\ res' = NoRes
    /\ UNCHANGED <<mlc, store, now, nextId, challenge, sessionId, user>>
    /\ UNCHANGED <<race, codec>>

Next ==
    \/ \E k \in SecretKeys, d1 \in ChallengeDurations, d2 \in SessionDurations :
          NewAuthMagicLinkController(k, d1, d2)
    \/ Tick
    \/ \E e \in Emails, r \in RandOutcomes : GenerateChallenge(e, r)
    \/ Idle /\ \E t \in Inputs, dbErr \in BOOLEAN : VerifyChallenge(t, dbErr)
    \/ StoreUser
    \/ \E r \in RandOutcomes : GenerateSessionId(r)
    \/ Idle /\ \E t \in Inputs, dbErr \in BOOLEAN : VerifySessionId(t, dbErr)
    \/ Consume

Spec == Init /\ [][Next]_vars

(***************************************************************************)
(* A second caller, who hands the verifiers altered tokens within one      *)
(* second: one controller and one email, and for each token issued the     *)
(* token itself, the token                                                 *)
(* with one character of its subject, expiry or MAC field replaced by      *)
(* another character of that field's alphabet, and malformed variants.     *)
(***************************************************************************)
TamperKey   == [i \in 1..MinSecretKeyLen |-> 64 + i]
TamperEmail == <<85, 115, 101, 114, 64, 69, 120, 97, 109, 112, 108, 101, 46, 99, 111, 109, 32>>

\* the positions of the dashes of t
Dashes(t) == {i \in 1..Len(t) : t[i] = DASH[1]}

\* the positions of t inside its subject, expiry and MAC fields
FieldPositions(t) ==
    Bind(Dashes(t), LAMBDA ds :
        IF ds = {} THEN {}
        ELSE Bind(Min(ds), LAMBDA first : {i \in (first + 1)..Len(t) : t[i] # DASH[1]}))

\* the field (1..4) of t that the position i is in
FieldOf(t, i) == Cardinality({k \in 1..(i - 1) : t[k] = DASH[1]}) + 1

\* "7" and "B" are of the base32 and ULID alphabets, "7" is a decimal digit
ReplacementChars(t, i) == IF FieldOf(t, i) = 3 THEN {55} ELSE {55, 66}

Replacements(t) ==
    UNION {{[t EXCEPT ![i] = c] : c \in ReplacementChars(t, i) \ {t[i]}} : i \in FieldPositions(t)}

\* t with the string x put in after the position i
Insert(t, i, x) == SubSeq(t, 1, i) \o x \o SubSeq(t, i + 1, Len(t))

\* wrong prefix, no prefix, a field less, a field more, "!" (not of the
\* alphabet) in the salt, the subject and the MAC, an expiry that is no
\* number, "=" after the MAC, and 4 line feeds inside the MAC
Malformed(t) ==
    Bind(Dashes(t), LAMBDA ds :
    Bind(<<Min(ds), Max(ds \ {Max(ds)}), Max(ds)>>, LAMBDA d :
    { Relabel(t),
      Tail(t),
      SubSeq(t, 1, d[3] - 1),
      t \o DASH \o <<65>>,
      [t EXCEPT ![2] = 33],
      Insert(t, d[1], <<33>>),
      Insert(t, d[3], <<33>>),
      SubSeq(t, 1, d[2]) \o <<120>> \o SubSeq(t, d[3], Len(t)),
      t \o PAD,
      Insert(t, Len(t) - 1, Repeat(10, 4)) }))

TamperInputs ==
    Issued \cup UNION {Replacements(t) : t \in Issued}
           \cup UNION {Malformed(t) : t \in Issued} \cup {<<>>}

NextTamper ==
    \/ NewAuthMagicLinkController(TamperKey, 1, 1)
    \/ GenerateChallenge(TamperEmail, 1)
    \/ Idle /\ \E t \in TamperInputs : VerifyChallenge(t, FALSE)
    \/ StoreUser
    \/ GenerateSessionId(1)
    \/ Idle /\ \E t \in TamperInputs : VerifySessionId(t, FALSE)
    \/ Consume

SpecTamper == Init /\ [][NextTamper]_vars

(***************************************************************************)
(* A third caller, who also builds records himself and uses the methods of *)
(* the record and the pass-through methods of the controller: one          *)
(* controller and one email.                                               *)
(***************************************************************************)
RecordEmail == NormalizeEmail(TamperEmail)

\* user := &AuthUserRecord{Email: email}
MakeRecord(email) ==
    /\ res = NoRes
    /\ user' = <<AuthUserRecordLiteral(email)>>
    /\ res' = Res("MakeRecord", email, user', NoErr, <<>>)
    /\ UNCHANGED <<mlc, store, now, nextId, challenge, sessionId>>
    /\ UNCHANGED <<race, codec>>

GetID ==
    /\ res = NoRes
    /\ user # <<>>
    /\ IsZeroULID(user[1].ID) => nextId <= MaxIds
    /\ \E u \in {EnsureID(user[1], MakeULID(nextId))} :
           /\ user' = <<u>>
           /\ res' = Res("GetID", <<>>, <<u>>, NoErr, u.ID)
    /\ nextId' = IF IsZeroULID(user[1].ID) THEN nextId + 1 ELSE nextId
    /\ UNCHANGED <<mlc, store, now, challenge, sessionId>>
    /\ UNCHANGED <<race, codec>>

GetKeyName ==
    /\ res = NoRes
    /\ user # <<>>
    /\ IsZeroULID(user[1].ID) => nextId <= MaxIds
    /\ \E u \in {EnsureID(user[1], MakeULID(nextId))} :
           /\ user' = <<u>>
           /\ res' = Res("GetKeyName", <<>>, <<u>>, NoErr, KeyName(u))
    /\ nextId' = IF IsZeroULID(user[1].ID) THEN nextId + 1 ELSE nextId
    /\ UNCHANGED <<mlc, store, now, challenge, sessionId>>
    /\ UNCHANGED <<race, codec>>

GetUserByEmail(email, dbErr) ==
    /\ res = NoRes
    /\ mlc # <<>>
    /\ \E r \in {SQLGetUserByEmail(store, email, dbErr)} :
           /\ res' = Res("GetUserByEmail", email, r.user, r.err, <<>>)
           /\ user' = IF r.user # <<>> THEN r.user ELSE user
    /\ UNCHANGED <<mlc, store, now, nextId, challenge, sessionId>>
    /\ UNCHANGED <<race, codec>>

\* the answer is in out: <<1>> for true, <<0>> for false
UserExistsByEmail(email) ==
    /\ res = NoRes
    /\ mlc # <<>>
    /\ res' = Res("UserExistsByEmail", email, <<>>, NoErr,
                  IF SQLUserExistsByEmail(store, email) THEN <<1>> ELSE <<0>>)
    /\ UNCHANGED <<mlc, store, now, nextId, challenge, sessionId, user>>
    /\ UNCHANGED <<race, codec>>

NextRecord ==
    \/ NewAuthMagicLinkController(TamperKey, 1, 1)
    \/ MakeRecord(RecordEmail)
    \/ GetID
    \/ GetKeyName
    \/ GetUserByEmail(TamperEmail, FALSE)
    \/ UserExistsByEmail(TamperEmail)
    \/ GenerateChallenge(TamperEmail, 1)
    \/ Idle /\ \E t \in Issued : VerifyChallenge(t, FALSE)
    \/ StoreUser
    \/ GenerateSessionId(1)
    \/ Idle /\ \E t \in Issued : VerifySessionId(t, FALSE)
    \/ Consume

SpecRecord == Init /\ [][NextRecord]_vars

(***************************************************************************)
(* A fourth caller, who asks for a challenge for an email that has a zero  *)
(* byte in it and moves the boundary between the salt and the email of the *)
(* token he gets: no key is needed for that.                               *)
(***************************************************************************)
\* "ab\x00v@x"
ZeroByteEmail == <<97, 98, 0, 118, 64, 120>>

\* the challenges whose salt field holds the salt of t, a zero byte and the
\* email of t up to one of its zero bytes, and whose email field holds the
\* rest of the email; the expiry and MAC fields are those of t
Shifted(t) ==
    IF ~HasPrefix(t, challengeSignature) THEN {}
    ELSE Bind(Split(SubSeq(t, Len(challengeSignature) + 1, Len(t)), DASH), LAMBDA parts :
         Bind(<<decodeFromString(parts[1]), decodeFromString(parts[2])>>, LAMBDA f :
             IF ~f[1].ok \/ ~f[2].ok THEN {}
             ELSE { Sprintf(challengeSignature,
                            encodeToString(f[1].val \o <<0>> \o SubSeq(f[2].val, 1, k - 1)),
                            encodeToString(SubSeq(f[2].val, k + 1, Len(f[2].val))),
                            parts[3], parts[4]) :
                    k \in {i \in 1..Len(f[2].val) : f[2].val[i] = 0} }))

ShiftInputs == Issued \cup UNION {Shifted(t) : t \in Issued}

NextShift ==
    \/ NewAuthMagicLinkController(TamperKey, 1, 1)
    \/ Tick
    \/ \E e \in {ZeroByteEmail, TamperEmail} : GenerateChallenge(e, 1)
    \/ Idle /\ \E t \in ShiftInputs : VerifyChallenge(t, FALSE)
    \/ StoreUser
    \/ Consume

SpecShift == Init /\ [][NextShift]_vars

(***************************************************************************)
(* Two concurrent callers of SQLStorage.StoreUser on a table that has a    *)
(* unique index on the email column.  A call is two statements, the SELECT *)
(* of UserExistsByEmail and the INSERT or UPDATE, and the statements of    *)
(* the two calls interleave.                                               *)
(***************************************************************************)
\* the records the callers store: each got its own from VerifyChallenge
RaceUsers ==
    {NewAuthUserRecord(e, MakeULID(k), StartTime) : e \in Emails, k \in 1..MaxIds}

\* INSERT INTO t (id, email, data): the unique index on email refuses a
\* second row of the same email
SQLInsert(rows, u) ==
    IF \E r \in rows : r.email = u.Email
    THEN [rows |-> rows, err |-> ErrDuplicateKey]
    ELSE [rows |-> rows \cup {[id |-> ulidString(u.ID), email |-> u.Email,
                               data |-> u]},
          err  |-> NoErr]

\* UPDATE t SET data=? WHERE id=?
SQLUpdate(rows, u) ==
    [rows |-> {IF r.id = ulidString(u.ID) THEN [r EXCEPT !.data = u] ELSE r : r \in rows},
     err  |-> NoErr]

\* a bug-free variant of StoreUser: the existence is looked at again inside
\* the statement that writes (an upsert)
StoreUserStatementUpsert(rows, u, exists) ==
    IF ~SQLUserExistsByEmail(rows, u.Email) THEN SQLInsert(rows, u)
    ELSE SQLUpdate(rows, u)

\* the second statement of StoreUser, chosen by what the first one answered
StoreUserStatement(rows, u, exists) ==
    IF ~exists THEN SQLInsert(rows, u) ELSE SQLUpdate(rows, u)

\* if !st.UserExistsByEmail(user.Email)
StoreUserCheck(p, u) ==
    /\ race[p].pc = "idle"
    /\ race' = [race EXCEPT ![p] = [pc |-> "checked", user |-> <<u>>,
                                    exists |-> SQLUserExistsByEmail(store, u.Email),
                                    err |-> NoErr]]
    /\ UNCHANGED <<mlc, store, now, nextId, challenge, sessionId, user, res, codec>>

\* st.db.Exec(...); return
StoreUserExec(p) ==
    /\ race[p].pc = "checked"
    /\ \E r \in {StoreUserStatement(store, race[p].user[1], race[p].exists)} :
           /\ store' = r.rows
           /\ race' = [race EXCEPT ![p].pc = "done", ![p].err = r.err]
    /\ UNCHANGED <<mlc, now, nextId, challenge, sessionId, user, res, codec>>

\* the caller has looked at the error StoreUser returned
StoreUserReturn(p) ==
    /\ race[p].pc = "done"
    /\ race' = [race EXCEPT ![p] = NoCall]
    /\ UNCHANGED <<mlc, store, now, nextId, challenge, sessionId, user, res, codec>>

NextRace ==
    \/ \E p \in Callers, u \in RaceUsers : StoreUserCheck(p, u)
    \/ \E p \in Callers : StoreUserExec(p)
    \/ \E p \in Callers : StoreUserReturn(p)

SpecRace == Init /\ [][NextRace]_vars

(***************************************************************************)
(* encodeToString and decodeFromString on their own: a byte string is      *)
(* encoded and the text is decoded again.                                  *)
(***************************************************************************)
CodecBytes == {0, 97, 255}

ByteStrings == UNION {[1..n -> CodecBytes] : n \in 0..MaxBytes}

InitCodec ==
    /\ mlc = <<>>
    /\ store = {}
    /\ now = StartTime
    /\ nextId = 1
    /\ challenge = <<>>
    /\ sessionId = <<>>
    /\ user = <<>>
    /\ res = NoRes
    /\ race = NoRace
    /\ codec \in {[NoCodec EXCEPT !.b = b] : b \in ByteStrings}

\* s := encodeToString(b)
Encode ==
    /\ codec.pc = "start"
    /\ codec' = [codec EXCEPT !.pc = "encoded", !.s = encodeToString(codec.b)]
    /\ UNCHANGED <<mlc, store, now, nextId, challenge, sessionId, user, res, race>>

\* back, err := decodeFromString(s)
Decode ==
    /\ codec.pc = "encoded"
    /\ \E r \in {decodeFromString(codec.s)} :
           codec' = [codec EXCEPT !.pc = "decoded",
                                  !.back = r.val,
                                  !.err = IF r.ok THEN NoErr ELSE ErrCorruptInput]
    /\ UNCHANGED <<mlc, store, now, nextId, challenge, sessionId, user, res, race>>

NextCodec == Encode \/ Decode

SpecCodec == InitCodec /\ [][NextCodec]_vars

(***************************************************************************)
(* A fifth caller, who hands in tokens with a field that cannot be         *)
(* decoded, before and after their expiry.                                 *)
(***************************************************************************)
\* t with a "!" put into its salt, and t with a "!" put into its MAC
Undecodable(t) ==
    Bind(Dashes(t), LAMBDA ds :
        IF ds = {} THEN {}
        ELSE {[t EXCEPT ![Len(challengeSignature) + 1] = 33], Insert(t, Max(ds), <<33>>)})

ExpiredInputs == Issued \cup UNION {Undecodable(t) : t \in Issued}

NextExpired ==
    \/ NewAuthMagicLinkController(TamperKey, 1, 1)
    \/ Tick
    \/ GenerateChallenge(TamperEmail, 1)
    \/ Idle /\ \E t \in ExpiredInputs : VerifyChallenge(t, FALSE)
    \/ StoreUser
    \/ GenerateSessionId(1)
    \/ Idle /\ \E t \in ExpiredInputs : VerifySessionId(t, FALSE)
    \/ Consume

SpecExpired == Init /\ [][NextExpired]_vars

(***************************************************************************)
(* A sixth caller, who hands in tokens of every class of rejection, before *)
(* and after their expiry: with an undecodable field, with another MAC,    *)
(* and with the expiry written in another way.                             *)
(***************************************************************************)
\* t with the first character of its MAC field replaced by another
\* character of the base32 alphabet ("A", or "B" where it is "A")
WrongMac(t) ==
    Bind(Dashes(t), LAMBDA ds :
        IF ds = {} \/ Max(ds) = Len(t) THEN {}
        ELSE {[t EXCEPT ![Max(ds) + 1] = IF @ = 65 THEN 66 ELSE 65]})

\* t with "0" or "+" put in front of its expiry field: strconv.Atoi gives
\* the same number
Retexted(t) ==
    Bind(Dashes(t), LAMBDA ds :
        IF Cardinality(ds) # 3 THEN {}
        ELSE Bind(Max(ds \ {Max(ds)}), LAMBDA d : {Insert(t, d, <<48>>), Insert(t, d, <<43>>)}))

ClassifyInputs ==
    Issued \cup UNION {Undecodable(t) \cup WrongMac(t) \cup Retexted(t) : t \in Issued}

NextClassify ==
    \/ NewAuthMagicLinkController(TamperKey, 1, 1)
    \/ Tick
    \/ GenerateChallenge(TamperEmail, 1)
    \/ Idle /\ \E t \in ClassifyInputs, dbErr \in BOOLEAN : VerifyChallenge(t, dbErr)
    \/ StoreUser
    \/ GenerateSessionId(1)
    \/ Idle /\ \E t \in ClassifyInputs, dbErr \in BOOLEAN : VerifySessionId(t, dbErr)
    \/ Consume

SpecClassify == Init /\ [][NextClassify]_vars

(***************************************************************************)
(* A seventh caller, who asks for a challenge for an "email" that is the   *)
(* 16 bytes of the identifier of a stored user, and who makes a session id *)
(* of the fields of that challenge (and a challenge of the fields of a     *)
(* session id): no key is needed for that.                                 *)
(***************************************************************************)
\* an identifier ulid.Make() can return at the Unix second 9 (9000 ms is
\* 0x2328): the entropy is ten times "u"; NormalizeEmail leaves these bytes
\* as they are
CrossID == <<0, 0, 0, 0, 35, 40>> \o Repeat(117, 10)

CrossEmail == <<117, 64, 120>>

\* the record of a user whose identifier is id, as VerifyChallenge made it
\* at an earlier login
MakeRecordWithID(email, id) ==
    /\ res = NoRes
    /\ user' = <<NewAuthUserRecord(email, id, now)>>
    /\ res' = Res("MakeRecord", email, user', NoErr, <<>>)
    /\ UNCHANGED <<mlc, store, now, nextId, challenge, sessionId>>
    /\ UNCHANGED <<race, codec>>

\* the session id made of the salt, the expiry and the MAC of the challenge
\* t, with the 16 bytes of its email written as a ULID; and the challenge
\* made of the fields of the session id t, with the 16 bytes of its ULID
\* written in base32
Crossed(t) ==
    IF t = <<>> THEN {}
    ELSE Bind(Split(Tail(t), DASH), LAMBDA parts :
        IF Len(parts) # 4 THEN {}
        ELSE IF HasPrefix(t, challengeSignature)
        THEN Bind(decodeFromString(parts[2]), LAMBDA e :
                 IF ~e.ok \/ Len(e.val) # Len(zeroULID) \/ e.val[1] >= 32 THEN {}
                 ELSE {Sprintf(sessionIdSignature, parts[1], ulidString(e.val),
                               parts[3], parts[4])})
        ELSE Bind(ulidParseStrict(parts[2]), LAMBDA id :
                 IF ~id.ok THEN {}
                 ELSE {Sprintf(challengeSignature, parts[1], encodeToString(id.val),
                               parts[3], parts[4])}))

CrossInputs == Issued \cup UNION {Crossed(t) : t \in Issued}

NextCross ==
    \/ NewAuthMagicLinkController(TamperKey, 1, 1)
    \/ MakeRecordWithID(CrossEmail, CrossID)
    \/ \E e \in {CrossID, CrossEmail} : GenerateChallenge(e, 1)
    \/ Idle /\ \E t \in CrossInputs : VerifyChallenge(t, FALSE)
    \/ StoreUser
    \/ GenerateSessionId(1)
    \/ Idle /\ \E t \in CrossInputs : VerifySessionId(t, FALSE)
    \/ Consume

SpecCross == Init /\ [][NextCross]_vars

(***************************************************************************)
(* Two concurrent logins with the same challenge, as the handler           *)
(* wwwVerifyChallenge of cmd/webdemo makes them: VerifyChallenge, then     *)
(* StoreUser (its two statements), then GenerateSessionId; the session id  *)
(* is then handed to VerifySessionId.  The calls of the two logins         *)
(* interleave.                                                             *)
(***************************************************************************)
\* user, err := mlink.VerifyChallenge(challenge)
LoginVerifyChallenge(p) ==
    /\ res = NoRes
    /\ mlc # <<>>
    /\ challenge # <<>>
    /\ race[p].pc = "idle"
    /\ \E r \in {VerifyChallengeCall(mlc[1], store, challenge[1].token, now,
                                     MakeULID(nextId), FALSE)} :
           /\ r.err = NoErr
           /\ r.made => nextId <= MaxIds
           /\ nextId' = IF r.made THEN nextId + 1 ELSE nextId
           /\ race' = [race EXCEPT ![p] = [pc |-> "verified", user |-> r.user,
                                           exists |-> FALSE, err |-> NoErr]]
    /\ UNCHANGED <<mlc, store, now, challenge, sessionId, user, res, codec>>

\* err = mlink.StoreUser(user): if !st.UserExistsByEmail(user.Email)
LoginStoreUserCheck(p) ==
    /\ race[p].pc = "verified"
    /\ race' = [race EXCEPT ![p].pc = "checked",
                            ![p].exists = SQLUserExistsByEmail(store, race[p].user[1].Email)]
    /\ UNCHANGED <<mlc, store, now, nextId, challenge, sessionId, user, res, codec>>

\* sessionId, err := mlink.GenerateSessionId(user), and the VerifySessionId
\* of the next request that carries the cookie
LoginSession(p) ==
    /\ race[p].pc = "done"
    /\ race[p].err = NoErr
    /\ mlc # <<>>
    /\ \E t \in {GenerateSessionIdString(mlc[1], race[p].user[1], Salt(p), now)} :
           \E r \in {VerifySessionIdCall(mlc[1], store, t, now, FALSE)} :
               race' = [race EXCEPT ![p].pc = "session", ![p].err = r.err]
    /\ UNCHANGED <<mlc, store, now, nextId, challenge, sessionId, user, res, codec>>

\* the request is over
LoginReturn(p) ==
    /\ race[p].pc \in {"done", "session"}
    /\ race' = [race EXCEPT ![p] = NoCall]
    /\ UNCHANGED <<mlc, store, now, nextId, challenge, sessionId, user, res, codec>>

NextLogin ==
    \/ NewAuthMagicLinkController(TamperKey, 1, 1)
    \/ GenerateChallenge(TamperEmail, 1)
    \/ Consume
    \/ \E p \in Callers : LoginVerifyChallenge(p)
    \/ \E p \in Callers : LoginStoreUserCheck(p)
    \/ \E p \in Callers : StoreUserExec(p)
    \/ \E p \in Callers : LoginSession(p)
    \/ \E p \in Callers : LoginReturn(p)

SpecLogin == Init /\ [][NextLogin]_vars

(***************************************************************************)
(* An eighth caller, who sets the Enabled flag of the records he holds     *)
(* before he stores them.                                                  *)
(***************************************************************************)
\* user.Enabled = enabled
SetEnabled(enabled) ==
    /\ res = NoRes
    /\ user # <<>>
    /\ user[1].Enabled # enabled
    /\ user' = <<[user[1] EXCEPT !.Enabled = enabled]>>
    /\ res' = Res("SetEnabled", <<>>, user', NoErr, <<>>)
    /\ UNCHANGED <<mlc, store, now, nextId, challenge, sessionId>>
    /\ UNCHANGED <<race, codec>>

EnabledInputs == Issued \cup UNION {WrongMac(t) : t \in Issued}

NextEnabled ==
    \/ NewAuthMagicLinkController(TamperKey, 1, 1)
    \/ Tick
    \/ GenerateChallenge(TamperEmail, 1)
    \/ Idle /\ \E t \in EnabledInputs : VerifyChallenge(t, FALSE)
    \/ \E enabled \in BOOLEAN : SetEnabled(enabled)
    \/ StoreUser
    \/ GenerateSessionId(1)
    \/ Idle /\ \E t \in EnabledInputs : VerifySessionId(t, FALSE)
    \/ Consume

SpecEnabled == Init /\ [][NextEnabled]_vars

(***************************************************************************)
(* The calls the properties are about.                                     *)
(***************************************************************************)
\* the call that has just returned got an answer from the store, if it asked
StoreAnswered == res.err # ErrDatabase

\* VerifyChallenge has just returned, called on the challenge last issued
\* no later than its expiry
VerifiedIssuedChallenge ==
    /\ res.op = "VerifyChallenge"
    /\ challenge # <<>>
    /\ res.in = challenge[1].token
    /\ now <= challenge[1].exp

\* VerifySessionId has just returned, called on the session id last issued
VerifiedIssuedSession ==
    /\ res.op = "VerifySessionId"
    /\ sessionId # <<>>
    /\ res.in = sessionId[1].token

InStore(id) == \E r \in store : r.id = ulidString(id)

(***************************************************************************)
(* C1.  Challenge round trip: VerifyChallenge of the token GenerateChallenge*)
(* returned for the email E, on the same controller and no later than the  *)
(* expiry, succeeds and returns a record whose Email is NormalizeEmail(E), *)
(* for every length of the normalized email.                               *)
(***************************************************************************)
C1_ChallengeRoundTrip ==
    (VerifiedIssuedChallenge /\ StoreAnswered) =>
        /\ res.err = NoErr
        /\ res.user # <<>>
        /\ res.user[1].Email = NormalizeEmail(challenge[1].email)

(***************************************************************************)
(* C2.  Session round trip and repeatability: VerifySessionId of the token *)
(* GenerateSessionId returned for a record with identifier X, with a       *)
(* session-expiry duration > 0, no later than the expiry and with X in the *)
(* store, returns a record whose identifier is X, at every one of the      *)
(* verifications; and no verification changes the token or the store.      *)
(***************************************************************************)
C2_RoundTrip ==
    (/\ VerifiedIssuedSession
     /\ StoreAnswered
     /\ mlc[1].sessionExpDuration > 0
     /\ now <= sessionId[1].exp
     /\ InStore(sessionId[1].id)) =>
        /\ res.err = NoErr
        /\ res.user # <<>>
        /\ res.user[1].ID = sessionId[1].id

C2_SessionRoundTrip ==
    /\ []C2_RoundTrip
    /\ [][(res'.op = "VerifySessionId" /\ res' # res) =>
            (store' = store /\ sessionId' = sessionId)]_vars

\* a session id issued with a positive duration was verified successfully at
\* the second of its expiry
C2_Witness ==
    /\ VerifiedIssuedSession
    /\ mlc[1].sessionExpDuration > 0
    /\ res.err = NoErr
    /\ res.user # <<>>
    /\ res.user[1].ID = sessionId[1].id
    /\ now = sessionId[1].exp

(***************************************************************************)
(* C3.  Tamper detection: for a valid token (challenge or session) with    *)
(* one single character inside its subject, expiry or MAC field replaced,  *)
(* VerifyChallenge / VerifySessionId never succeeds and fails with         *)
(* ErrBrokenChallenge / ErrBrokenSessionId.                                *)
(***************************************************************************)
\* input is t with the character at one position of its subject, expiry or
\* MAC field replaced by another
OneCharReplaced(input, t) ==
    /\ Len(input) = Len(t)
    /\ \E i \in FieldPositions(t) :
          /\ input[i] # t[i]
          /\ \A k \in (1..Len(t)) \ {i} : input[k] = t[k]

C3_TamperDetection ==
    /\ (/\ res.op = "VerifyChallenge"
         /\ challenge # <<>>
         /\ now <= challenge[1].exp
         /\ OneCharReplaced(res.in, challenge[1].token)) => res.err = ErrBrokenChallenge
    /\ (/\ res.op = "VerifySessionId"
         /\ sessionId # <<>>
         /\ now <= sessionId[1].exp
         /\ OneCharReplaced(res.in, sessionId[1].token)) => res.err = ErrBrokenSessionId

(***************************************************************************)
(* C5.  Expiry: a correctly signed token is rejected with                  *)
(* ErrExpiredChallenge / ErrExpiredSessionId when its expiry is earlier    *)
(* than the current second, and is accepted while expiry >= the current    *)
(* second, the second of the expiry included (a session id: when its       *)
(* identifier is in the store).                                            *)
(***************************************************************************)
C5_Expiry ==
    /\ (/\ res.op = "VerifyChallenge"
         /\ challenge # <<>>
         /\ res.in = challenge[1].token
         /\ StoreAnswered) =>
            IF challenge[1].exp < now THEN res.err = ErrExpiredChallenge
            ELSE res.err = NoErr
    /\ (VerifiedIssuedSession /\ StoreAnswered) =>
            IF sessionId[1].exp < now THEN res.err = ErrExpiredSessionId
            ELSE InStore(sessionId[1].id) => res.err = NoErr

(***************************************************************************)
(* C6.  Malformed input: for an input with a wrong class prefix, with      *)
(* fewer or more than 4 dash-separated fields after the prefix, with a     *)
(* character outside the encoding alphabet in a field, or with an          *)
(* unparsable expiry (the empty string included), VerifyChallenge returns  *)
(* ErrInvalidChallenge and VerifySessionId returns ErrInvalidSessionId,    *)
(* and no record.                                                          *)
(***************************************************************************)
\* some character of the field f is not of the alphabet whose values are val
OutsideAlphabet(f, val(_)) == \E i \in 1..Len(f) : val(f[i]) = 255

\* sig is the class prefix, val the values of the alphabet of the subject
MalformedFor(input, sig, val(_)) ==
    \/ ~HasPrefix(input, sig)
    \/ Bind(Split(SubSeq(input, Len(sig) + 1, Len(input)), DASH), LAMBDA parts :
           \/ Len(parts) # 4
           \/ /\ Len(parts) = 4
              /\ \/ OutsideAlphabet(parts[1], b32Value)
                 \/ OutsideAlphabet(parts[2], val)
                 \/ ~Atoi(parts[3]).ok
                 \/ OutsideAlphabet(parts[4], b32Value))

C6_MalformedInput ==
    /\ (res.op = "VerifyChallenge" /\ MalformedFor(res.in, challengeSignature, b32Value)) =>
            (res.err = ErrInvalidChallenge /\ res.user = <<>>)
    /\ (res.op = "VerifySessionId" /\ MalformedFor(res.in, sessionIdSignature, ulidValue)) =>
            (res.err = ErrInvalidSessionId /\ res.user = <<>>)

(***************************************************************************)
(* C4.  Domain separation: the tokens of GenerateChallenge carry the       *)
(* challenge prefix and those of GenerateSessionId the session prefix;     *)
(* VerifySessionId rejects every input that carries the challenge prefix   *)
(* with ErrInvalidSessionId, and VerifyChallenge every input that carries  *)
(* the session prefix with ErrInvalidChallenge, whatever the validity of   *)
(* its fields, expiry and MAC.                                             *)
(***************************************************************************)
StartsWith(s, sig) == s # <<>> /\ s[1] = sig[1]

C4_DomainSeparation ==
    /\ challenge # <<>> => StartsWith(challenge[1].token, challengeSignature)
    /\ sessionId # <<>> => StartsWith(sessionId[1].token, sessionIdSignature)
    /\ (res.op = "VerifySessionId" /\ StartsWith(res.in, challengeSignature)) =>
            (res.err = ErrInvalidSessionId /\ res.user = <<>>)
    /\ (res.op = "VerifyChallenge" /\ StartsWith(res.in, sessionIdSignature)) =>
            (res.err = ErrInvalidChallenge /\ res.user = <<>>)

\* VerifySessionId has refused the fields of a valid session id whose
\* identifier is in the store, carrying the challenge prefix
C4_Witness ==
    /\ res.op = "VerifySessionId"
    /\ sessionId # <<>>
    /\ res.in = Relabel(sessionId[1].token)
    /\ mlc[1].sessionExpDuration > 0
    /\ now <= sessionId[1].exp
    /\ InStore(sessionId[1].id)
    /\ res.err = ErrInvalidSessionId

(***************************************************************************)
(* C7.  Construction: NewAuthMagicLinkController fails with                *)
(* ErrSecretKeyTooShort and returns no controller when the secret is       *)
(* shorter than 16 bytes, and then no issue or verify operation takes      *)
(* place; with 16 bytes or more it succeeds for any durations and keeps    *)
(* the SHA-256 digest of the secret, not the secret.                       *)
(***************************************************************************)
C7_Construction ==
    /\ res.op = "NewAuthMagicLinkController" =>
          IF Len(res.in) < MinSecretKeyLen
          THEN res.err = ErrSecretKeyTooShort /\ mlc = <<>>
          ELSE /\ res.err = NoErr
               /\ mlc # <<>>
               /\ DOMAIN mlc[1] = {"secretKeyHash", "challengeExpDuration", "sessionExpDuration"}
               /\ mlc[1].secretKeyHash = Sum256(res.in)
               /\ mlc[1].secretKeyHash # res.in
    /\ mlc = <<>> =>
          /\ res.op \in {"", "NewAuthMagicLinkController"}
          /\ challenge = <<>> /\ sessionId = <<>> /\ user = <<>> /\ store = {}

\* the construction with a secret of 10 bytes has failed
C7_Witness ==
    /\ res.op = "NewAuthMagicLinkController"
    /\ Len(res.in) = 10
    /\ res.err = ErrSecretKeyTooShort
    /\ mlc = <<>>

(***************************************************************************)
(* C8.  Session verification never fabricates identity: for a session id  *)
(* that passes the prefix, format, expiry and MAC checks and whose         *)
(* identifier is not in the store, VerifySessionId returns no record and   *)
(* ErrUserNotFound; the record VerifySessionId returns is always the one   *)
(* the store holds for the identifier.                                     *)
(***************************************************************************)
C8_NoFabricatedIdentity ==
    /\ (/\ VerifiedIssuedSession
         /\ StoreAnswered
         /\ now <= sessionId[1].exp
         /\ ~InStore(sessionId[1].id)) => (res.user = <<>> /\ res.err = ErrUserNotFound)
    /\ (res.op = "VerifySessionId" /\ res.user # <<>>) =>
            \E r \in store : /\ r.id = ulidString(res.user[1].ID)
                              /\ res.user[1] = JsonRoundTrip(r.data)

\* an unexpired session id, issued for a record that was never stored, has
\* been answered with ErrUserNotFound
C8_Witness ==
    /\ VerifiedIssuedSession
    /\ now <= sessionId[1].exp
    /\ ~InStore(sessionId[1].id)
    /\ res.user = <<>>
    /\ res.err = ErrUserNotFound

(***************************************************************************)
(* C9.  Challenge verification resolves or provisions: on a token that     *)
(* passes all checks VerifyChallenge returns the record the store holds    *)
(* for the decoded email (same identifier) when there is one, and a new    *)
(* record with that email, Enabled, a non-zero identifier and nil          *)
(* CustomData when the store answers ErrUserNotFound, and only then; for a *)
(* token that failed a check no record is made.                            *)
(***************************************************************************)
CheckErrors == {ErrInvalidChallenge, ErrBrokenChallenge, ErrExpiredChallenge}

HeldFor(email) == {r \in store : r.email = NormalizeEmail(email)}

C9_Returned ==
    /\ (VerifiedIssuedChallenge /\ res.err \notin CheckErrors) =>
          IF res.err = ErrDatabase THEN res.user = <<>>
          ELSE /\ res.err = NoErr
               /\ res.user # <<>>
               /\ res.user[1].Email = NormalizeEmail(challenge[1].email)
               /\ IF HeldFor(challenge[1].email) # {}
                  THEN \E r \in HeldFor(challenge[1].email) :
                          /\ res.user[1].ID = r.data.ID
                          /\ res.user[1] =
                                [JsonRoundTrip(r.data) EXCEPT !.RecentLoginTime = now]
                  ELSE /\ res.user[1].Enabled
                       /\ ~IsZeroULID(res.user[1].ID)
                       /\ res.user[1].CustomData = "nil"
                       /\ res.user[1].FirstLoginTime = now
    /\ (res.op = "VerifyChallenge" /\ res.err \in CheckErrors) => res.user = <<>>

\* ulid.Make is called only by a VerifyChallenge that succeeds on an email
\* the store does not hold
C9_Made ==
    nextId' # nextId =>
        /\ res'.op = "VerifyChallenge"
        /\ res'.err = NoErr
        /\ res'.user # <<>>
        /\ res'.user[1].ID = MakeULID(nextId)
        /\ HeldFor(res'.user[1].Email) = {}

C9_ResolveOrProvision == []C9_Returned /\ [][C9_Made]_vars

\* VerifyChallenge has returned the record the store holds for the email
C9_Witness ==
    /\ VerifiedIssuedChallenge
    /\ res.err = NoErr
    /\ \E r \in HeldFor(challenge[1].email) : res.user # <<>> /\ res.user[1].ID = r.data.ID

(***************************************************************************)
(* C10.  The core never persists on its own: GenerateChallenge,            *)
(* VerifyChallenge, GenerateSessionId and VerifySessionId leave the stored *)
(* records unchanged whatever their outcome; the store changes only by a   *)
(* StoreUser of a record the caller got from a successful verification;    *)
(* and the rows of the store hold user records only, no session            *)
(* information.                                                            *)
(***************************************************************************)
CoreOps == {"GenerateChallenge", "VerifyChallenge", "GenerateSessionId", "VerifySessionId"}

UserFields == {"ID", "Email", "Enabled", "FirstLoginTime", "RecentLoginTime", "CustomData"}

C10_Step ==
    /\ (res' # res /\ res'.op \in CoreOps) => store' = store
    /\ store' # store => (res'.op = "StoreUser" /\ user # <<>> /\ res'.user = user)

C10_Rows ==
    \A r \in store : /\ DOMAIN r = {"id", "email", "data"}
                      /\ DOMAIN r.data = UserFields
                      /\ r.id = ulidString(r.data.ID)

C10_CoreNeverPersists == []C10_Rows /\ [][C10_Step]_vars

\* a challenge has been verified successfully while the store was empty
C10_Witness ==
    /\ VerifiedIssuedChallenge
    /\ res.err = NoErr
    /\ res.user # <<>>
    /\ store = {}

(***************************************************************************)
(* C11.  Non-expiring sessions: on a controller constructed with a         *)
(* session-expiry duration <= 0, the session id GenerateSessionId returned *)
(* for a stored user is accepted by VerifySessionId at every later time    *)
(* and is never rejected with ErrExpiredSessionId.                         *)
(***************************************************************************)
C11_NonExpiringSessions ==
    (/\ VerifiedIssuedSession
     /\ StoreAnswered
     /\ mlc[1].sessionExpDuration <= 0
     /\ InStore(sessionId[1].id)) =>
        /\ res.err # ErrExpiredSessionId
        /\ res.err = NoErr
        /\ res.user # <<>>

(***************************************************************************)
(* C12.  Identifier laziness: GetID and GetKeyName called on a record      *)
(* whose identifier is zero give it a non-zero identifier; every call of   *)
(* either, in any order, on a record whose identifier is set leaves the    *)
(* identifier as it is; GetID returns the identifier of the record and the *)
(* key name GetKeyName returns is built of that identifier and the email.  *)
(***************************************************************************)
RecordOps == {"GetID", "GetKeyName"}

C12_Step ==
    (res = NoRes /\ res'.op \in RecordOps) =>
        /\ ~IsZeroULID(user'[1].ID)
        /\ ~IsZeroULID(user[1].ID) => user'[1].ID = user[1].ID
        /\ res'.op = "GetID" => res'.out = user'[1].ID
        /\ res'.op = "GetKeyName" =>
               /\ Len(res'.out) = ulidEncodedSize + 2 + Len(user[1].Email)
               /\ ulidParseStrict(SubSeq(res'.out, 2, ulidEncodedSize + 1)).val = user'[1].ID

C12_IdentifierLaziness == [][C12_Step]_vars

\* GetKeyName has answered for a record the caller built himself, which now
\* has an identifier
C12_Witness ==
    /\ res.op = "GetKeyName"
    /\ res.user # <<>>
    /\ res.user[1].FirstLoginTime = 0
    /\ ~IsZeroULID(res.user[1].ID)
    /\ res.out = <<95>> \o ulidString(res.user[1].ID) \o <<95>> \o RecordEmail

(***************************************************************************)
(* C13.  Session issuance assigns the identifier: after a successful       *)
(* GenerateSessionId the record has a non-zero identifier, the subject     *)
(* field of the returned session id is that identifier, and so no session  *)
(* id that has been issued carries the zero identifier.                    *)
(***************************************************************************)
C13_SessionAssignsIdentifier ==
    (res.op = "GenerateSessionId" /\ res.err = NoErr) =>
        /\ ~IsZeroULID(res.user[1].ID)
        /\ Split(res.out, DASH)[2] # ulidString(zeroULID)
        /\ Split(res.out, DASH)[2] = ulidString(res.user[1].ID)
        /\ user = res.user

(***************************************************************************)
(* C14.  Identifier stability: an identifier that is not zero is never     *)
(* changed, neither by GetID, GetKeyName, StoreUser and GenerateSessionId  *)
(* on the record, nor in the store by any operation; and a record that is  *)
(* stored under an identifier comes back with that identifier from         *)
(* VerifyChallenge and GetUserByEmail for its email and from               *)
(* VerifySessionId for a session id of that identifier.                    *)
(***************************************************************************)
InPlaceOps == {"GetID", "GetKeyName", "StoreUser", "GenerateSessionId"}

ReturningOps == {"VerifyChallenge", "VerifySessionId", "GetUserByEmail"}

C14_Step ==
    /\ (res = NoRes /\ res'.op \in InPlaceOps /\ ~IsZeroULID(user[1].ID)) =>
           /\ user'[1].ID = user[1].ID
           /\ res'.user[1].ID = user[1].ID
    /\ \A r \in store :
           ~IsZeroULID(r.data.ID) =>
               \E q \in store' : /\ q.id = r.id
                                 /\ q.email = r.email
                                 /\ q.data.ID = r.data.ID

C14_Returned ==
    (res.op \in ReturningOps /\ res.err = NoErr) =>
        /\ \A r \in store :
               (r.email = res.user[1].Email /\ ~IsZeroULID(r.data.ID)) =>
                   res.user[1].ID = r.data.ID
        /\ res.op = "VerifySessionId" =>
               /\ res.user[1].ID = ulidParseStrict(Split(res.in, DASH)[2]).val
               /\ InStore(res.user[1].ID)

C14_IdentifierStability == []C14_Returned /\ [][C14_Step]_vars

\* VerifyChallenge has returned the record that was stored before, with the
\* identifier it is stored under
C14_Witness ==
    /\ res.op = "VerifyChallenge"
    /\ res.err = NoErr
    /\ ~IsZeroULID(res.user[1].ID)
    /\ InStore(res.user[1].ID)

(***************************************************************************)
(* C15.  Login timestamps: every successful VerifyChallenge returns a      *)
(* record whose RecentLoginTime is the current time, for a record that was *)
(* stored before as well as for a new one; FirstLoginTime is the current   *)
(* time only for a record that is made by this call and is otherwise what  *)
(* the store holds; a VerifyChallenge that fails returns no record and     *)
(* changes no timestamp, neither of the caller's record nor in the store.  *)
(***************************************************************************)
C15_Step ==
    (res = NoRes /\ res'.op = "VerifyChallenge") =>
        /\ store' = store
        /\ IF res'.err = NoErr
           THEN /\ res'.user # <<>>
                /\ user' = res'.user
                /\ res'.user[1].RecentLoginTime = now
                /\ IF HeldFor(res'.user[1].Email) = {}
                   THEN res'.user[1].FirstLoginTime = now
                   ELSE \E r \in HeldFor(res'.user[1].Email) :
                            res'.user[1].FirstLoginTime = r.data.FirstLoginTime
           ELSE /\ res'.user = <<>>
                /\ user' = user

C15_LoginTimestamps == [][C15_Step]_vars

\* VerifyChallenge has returned a record that was stored at an earlier login
C15_Witness ==
    /\ res.op = "VerifyChallenge"
    /\ res.err = NoErr
    /\ res.user[1].RecentLoginTime = now
    /\ \E r \in HeldFor(res.user[1].Email) :
           /\ r.data.RecentLoginTime < now
           /\ res.user[1].FirstLoginTime = r.data.FirstLoginTime
           /\ res.user[1].FirstLoginTime < now

(***************************************************************************)
(* C16.  Unambiguous MAC payload: a MAC that GenerateChallenge issued for  *)
(* one salt, email and expiry validates no challenge that decodes to       *)
(* another email: a VerifyChallenge that succeeds on an input with the MAC *)
(* field of the challenge issued returns the email of that challenge.      *)
(***************************************************************************)
C16_UnambiguousPayload ==
    (/\ res.op = "VerifyChallenge"
     /\ res.err = NoErr
     /\ challenge # <<>>
     /\ Split(res.in, DASH)[4] = Split(challenge[1].token, DASH)[4]) =>
        /\ res.user[1].Email = NormalizeEmail(challenge[1].email)
        /\ decodeFromString(Split(res.in, DASH)[2]).val = NormalizeEmail(challenge[1].email)

(***************************************************************************)
(* C17.  Persistence race: StoreUser is not atomic, so two concurrent      *)
(* calls for the same email that is not stored yet can both be told that   *)
(* the email does not exist and both try the INSERT (the witness); when    *)
(* both such calls have returned, at least one of them has returned the    *)
(* duplicate-key error of the unique email index, the call was not tried   *)
(* again, and the table holds one row of that email.                       *)
(***************************************************************************)
BothSawNoRow(p, q) ==
    /\ p # q
    /\ race[p].pc = "done"
    /\ race[q].pc = "done"
    /\ ~race[p].exists
    /\ ~race[q].exists
    /\ race[p].user[1].Email = race[q].user[1].Email

C17_PersistenceRace ==
    \A p, q \in Callers :
        BothSawNoRow(p, q) =>
            /\ race[p].err = ErrDuplicateKey \/ race[q].err = ErrDuplicateKey
            /\ race[p].err \in {NoErr, ErrDuplicateKey}
            /\ Cardinality(HeldFor(race[p].user[1].Email)) = 1
            /\ (race[p].err = ErrDuplicateKey /\ race[p].user[1].ID # race[q].user[1].ID) =>
                   \A r \in HeldFor(race[p].user[1].Email) : r.data.ID # race[p].user[1].ID

\* both callers were told that the email is not stored, one has inserted and
\* the other has the duplicate-key error
C17_Witness ==
    \E p, q \in Callers :
        /\ BothSawNoRow(p, q)
        /\ race[p].err = NoErr
        /\ race[q].err = ErrDuplicateKey
        /\ race[p].user[1].ID # race[q].user[1].ID
        /\ \E r \in store : r.data = race[p].user[1]

(***************************************************************************)
(* C18.  The controller is immutable after construction: no call of        *)
(* GenerateChallenge, VerifyChallenge, GenerateSessionId, VerifySessionId, *)
(* GetUserByEmail, StoreUser or UserExistsByEmail changes the key digest   *)
(* or the two durations, which stay what the constructor made of its       *)
(* arguments; so a verification returns what it returns on the controller  *)
(* as constructed, for the same store contents and clock, whatever calls   *)
(* were made before it.                                                    *)
(***************************************************************************)
ControllerOps == {"GenerateChallenge", "VerifyChallenge", "GenerateSessionId",
                  "VerifySessionId", "GetUserByEmail", "StoreUser", "UserExistsByEmail"}

AsConstructed == NewController(TamperKey, 1, 1).mlc

C18_Step ==
    /\ mlc # <<>> => mlc' = mlc
    /\ (res = NoRes /\ res'.op \in ControllerOps) =>
           /\ mlc = AsConstructed
           /\ mlc' = AsConstructed
    /\ (res = NoRes /\ res'.op = "VerifyChallenge") =>
           \E r \in {VerifyChallengeCall(AsConstructed[1], store, res'.in, now,
                                         MakeULID(nextId), FALSE)} :
               res'.err = r.err /\ res'.user = r.user
    /\ (res = NoRes /\ res'.op = "VerifySessionId") =>
           \E r \in {VerifySessionIdCall(AsConstructed[1], store, res'.in, now, FALSE)} :
               res'.err = r.err /\ res'.user = r.user

C19_CodecRoundTrip ==
    /\ codec.pc = "decoded" => (codec.err = NoErr /\ codec.back = codec.b)
    /\ \A i \in 1..Len(codec.s) : codec.s[i] # PAD[1]

(***************************************************************************)
(* C20.  Malformed is classified before expired: a token with a field that *)
(* cannot be decoded, the MAC field included, is answered with             *)
(* ErrInvalidChallenge / ErrInvalidSessionId also when its expiry is in    *)
(* the past, and ErrExpiredChallenge / ErrExpiredSessionId is the answer   *)
(* only to tokens whose four fields all decode.                            *)
(***************************************************************************)
ChallengeSubject(f) == decodeFromString(f).ok

SessionSubject(f) == ulidParseStrict(f).ok

FieldsDecode(input, sig, subject(_)) ==
    /\ HasPrefix(input, sig)
    /\ Bind(Split(SubSeq(input, Len(sig) + 1, Len(input)), DASH), LAMBDA parts :
           /\ Len(parts) = 4
           /\ decodeFromString(parts[1]).ok
           /\ subject(parts[2])
           /\ Atoi(parts[3]).ok
           /\ decodeFromString(parts[4]).ok)

C20_MalformedBeforeExpired ==
    /\ res.op = "VerifyChallenge" =>
           /\ res.err = ErrExpiredChallenge =>
                  FieldsDecode(res.in, challengeSignature, ChallengeSubject)
           /\ ~FieldsDecode(res.in, challengeSignature, ChallengeSubject) =>
                  res.err = ErrInvalidChallenge
    /\ res.op = "VerifySessionId" =>
           /\ res.err = ErrExpiredSessionId =>
                  FieldsDecode(res.in, sessionIdSignature, SessionSubject)
           /\ ~FieldsDecode(res.in, sessionIdSignature, SessionSubject) =>
                  res.err = ErrInvalidSessionId

(***************************************************************************)
(* C21.  Expired is classified before tampered: a token whose four fields  *)
(* decode and whose expiry is before the current time is answered with     *)
(* ErrExpiredChallenge / ErrExpiredSessionId whether or not its MAC is the *)
(* one the controller computes; ErrBrokenChallenge / ErrBrokenSessionId is *)
(* the answer exactly to the tokens whose fields decode, that are not      *)
(* expired and whose MAC differs; and a token that the checks reject gets  *)
(* one of the three errors of its class (any other error comes from the    *)
(* store, for a token that passed every check).                            *)
(***************************************************************************)
PartsOf(input, sig) == Split(SubSeq(input, Len(sig) + 1, Len(input)), DASH)

\* the MAC the controller computes for the fields of a challenge
ChallengeMac(parts) ==
    makeHMAC(mlc[1], Payload(decodeFromString(parts[1]).val, decodeFromString(parts[2]).val,
                             Itoa(Atoi(parts[3]).val)))

\* the MAC the controller computes for the fields of a session id
SessionMac(parts) ==
    makeHMAC(mlc[1], Payload(decodeFromString(parts[1]).val, ulidParseStrict(parts[2]).val,
                             parts[3]))

Classified(sig, subject(_), mac(_), errInvalid, errExpired, errBroken) ==
    Bind(<<FieldsDecode(res.in, sig, subject), PartsOf(res.in, sig)>>, LAMBDA w :
        LET decodes == w[1]
            past    == Atoi(w[2][3]).val < now
            differs == decodeFromString(w[2][4]).val # mac(w[2])
        IN  /\ (decodes /\ past) => res.err = errExpired
            /\ res.err = errExpired => past
            /\ res.err = errBroken <=> (decodes /\ ~past /\ differs)
            /\ ~decodes => res.err \in {errInvalid, errExpired}
            /\ res.err \notin {NoErr, errInvalid, errExpired, errBroken} =>
                   (decodes /\ ~past /\ ~differs /\ res.err \in {ErrUserNotFound, ErrDatabase}))

C24_ExpiryTextBound ==
    /\ (res.op = "VerifyChallenge" /\ challenge # <<>>
        /\ res.in \in Retexted(challenge[1].token)) =>
            (res.err # NoErr /\ res.user = <<>>)
    /\ (res.op = "VerifySessionId" /\ sessionId # <<>>
        /\ res.in \in Retexted(sessionId[1].token)) =>
            (res.err # NoErr /\ res.user = <<>>)

(***************************************************************************)
(* C22.  Domain separation of the MAC: a MAC that a challenge issued by    *)
(* GenerateChallenge carries validates no session id, whatever the email   *)
(* of the challenge is, and a MAC that an issued session id carries        *)
(* validates no challenge: a verifier that is given a token with the MAC   *)
(* of an issued token of the other class accepts it never.                 *)
(***************************************************************************)
MacField(t) == SubSeq(t, Max(Dashes(t)) + 1, Len(t))

C22_MacDomainSeparation ==
    /\ (res.op = "VerifySessionId" /\ challenge # <<>> /\ Dashes(res.in) # {}
        /\ MacField(res.in) = MacField(challenge[1].token)) =>
            (res.err # NoErr /\ res.user = <<>>)
    /\ (res.op = "VerifyChallenge" /\ sessionId # <<>> /\ Dashes(res.in) # {}
        /\ MacField(res.in) = MacField(sessionId[1].token)) =>
            (res.err # NoErr /\ res.user = <<>>)

(***************************************************************************)
(* C23.  A stored login is always resolvable: in every interleaving of the *)
(* login flows of two callers for the same email, when StoreUser has       *)
(* returned nil for the record that VerifyChallenge returned, the store    *)
(* holds a row of the identifier of that record and exactly one row of the *)
(* email, and VerifySessionId accepts the session id issued for the        *)
(* record: it never fails with ErrUserNotFound.                            *)
(***************************************************************************)
C23_StoredLoginResolvable ==
    \A p \in Callers :
        /\ (race[p].pc = "done" /\ race[p].err = NoErr) =>
               /\ InStore(race[p].user[1].ID)
               /\ Cardinality(HeldFor(race[p].user[1].Email)) = 1
        /\ race[p].pc = "session" =>
               /\ race[p].err # ErrUserNotFound
               /\ race[p].err = NoErr

(***************************************************************************)
(* C25.  The Enabled flag does not influence the protocol: on the store    *)
(* that differs from the present one only in the Enabled flag of its       *)
(* records, VerifyChallenge and VerifySessionId return for the same token  *)
(* the same error, and on success the same record but for that flag; so a  *)
(* record with Enabled = false is returned like an enabled one.            *)
(***************************************************************************)
FlipEnabled(rows) == {[r EXCEPT !.data.Enabled = ~@] : r \in rows}

\* the records are the same but for the Enabled flag of a stored record
SameButEnabled(a, b, stored) ==
    IF a = <<>> \/ b = <<>> THEN a = b
    ELSE IF stored THEN a[1] = [b[1] EXCEPT !.Enabled = ~@]
    ELSE a = b

C25_Step ==
    /\ (res = NoRes /\ res'.op = "VerifyChallenge") =>
           \E r \in {VerifyChallengeCall(mlc[1], FlipEnabled(store), res'.in, now,
                                         MakeULID(nextId), FALSE)} :
               /\ r.err = res'.err
               /\ SameButEnabled(r.user, res'.user, nextId' = nextId)
    /\ (res = NoRes /\ res'.op = "VerifySessionId") =>
           \E r \in {VerifySessionIdCall(mlc[1], FlipEnabled(store), res'.in, now, FALSE)} :
               /\ r.err = res'.err
               /\ SameButEnabled(r.user, res'.user, TRUE)

C25_EnabledNotUsed == [][C25_Step]_vars

\* VerifySessionId has returned a record that is not enabled
C25_Witness ==
    /\ res.op = "VerifySessionId"
    /\ res.err = NoErr
    /\ res.user # <<>>
    /\ ~res.user[1].Enabled
    /\ \E r \in store : r.data = res.user[1]

(***************************************************************************)
(* C26.  Verification does not consume a token: a challenge that           *)
(* VerifyChallenge has accepted is accepted again by every VerifyChallenge *)
(* that is called no later than its expiry second, whatever StoreUser and  *)
(* session calls were made in between; the call changes neither the store *)
(* nor the challenge; and when the user has been stored, the repeated      *)
(* verification returns the stored record and no new one.                  *)
(***************************************************************************)
\* the record the caller holds is of a login with the challenge issued last:
\* VerifyChallenge accepted that challenge at the second RecentLoginTime
AcceptedOnce ==
    /\ challenge # <<>>
    /\ user # <<>>
    /\ user[1].Email = NormalizeEmail(challenge[1].email)
    /\ user[1].RecentLoginTime >= challenge[1].exp - mlc[1].challengeExpDuration

C26_Step ==
    (/\ res = NoRes
     /\ res'.op = "VerifyChallenge"
     /\ AcceptedOnce
     /\ res'.in = challenge[1].token
     /\ now <= challenge[1].exp) =>
        /\ res'.err = NoErr
        /\ res'.user # <<>>
        /\ res'.user[1].Email = NormalizeEmail(challenge[1].email)
        /\ store' = store
        /\ challenge' = challenge
        /\ IF HeldFor(challenge[1].email) # {}
           THEN /\ nextId' = nextId
                /\ \E r \in HeldFor(challenge[1].email) :
                       res'.user[1] = [JsonRoundTrip(r.data) EXCEPT !.RecentLoginTime = now]
           ELSE /\ nextId' = nextId + 1
                /\ res'.user[1].ID = MakeULID(nextId)
                /\ res'.user[1].FirstLoginTime = now

C26_NotConsumed == [][C26_Step]_vars

\* the challenge has been accepted at its expiry second, after it was
\* accepted a second earlier and the user of that login was stored
C26_Witness ==
    /\ res.op = "VerifyChallenge"
    /\ res.err = NoErr
    /\ challenge # <<>>
    /\ res.in = challenge[1].token
    /\ now = challenge[1].exp
    /\ \E r \in HeldFor(challenge[1].email) :
           /\ r.data.FirstLoginTime >= challenge[1].exp - mlc[1].challengeExpDuration
           /\ r.data.RecentLoginTime < now
           /\ res.user[1].ID = r.data.ID

=============================================================================
